---- MODULE Spec2Model ----
(***************************************************************************)
(* Model of vstransitions/libs/movis.py:                                   *)
(*   - MovisSceneVSWrap: the bridge that renders a movis Composition into  *)
(*     VapourSynth frames (_to_node) and bounds the scene's memoization    *)
(*     dict under a mutex;                                                 *)
(*   - MovisVSVideoSource: the layer that serves VapourSynth frames to the *)
(*     compositor by time (get_key, __call__, get_audio).                  *)
(* Times are exact rationals <<numerator, denominator>> with a positive    *)
(* denominator; the double rounding of float(n / fps) is not modelled.     *)
(***************************************************************************)
EXTENDS Integers, Sequences, FiniteSets, TLC

\* core.num_threads: the host's worker pool size.
NumThreads == 2

\* Bound on the number of _to_node invocations the host makes in one behaviour.
MaxCalls == 7

\* The same bound in the behaviours checked for progress.
LiveMaxCalls == 5

Workers == 1..NumThreads

NoWorker == 0

NoArray == 0

(***************************************************************************)
(* Rational helpers (Fraction arithmetic of the source).                   *)
(***************************************************************************)
RatLess(a, b) == a[1] * b[2] < b[1] * a[2]

RatEq(a, b) == a[1] * b[2] = b[1] * a[2]

\* int(x) of a rational x = p/q with q > 0: truncation toward zero.
Trunc(p, q) == IF p >= 0 THEN p \div q ELSE -((-p) \div q)

(***************************************************************************)
(* MovisSceneVSWrap                                                        *)
(***************************************************************************)
\* The scenes rendered: fps = num/den, scene.duration = dn/dd seconds.
\* 2.5 fps for 2 s: duration * fps is whole (5 frames).
WholeScene == [num |-> 5, den |-> 2, dn |-> 2, dd |-> 1]

\* 2 fps for 2.75 s: duration * fps is 5.5.
FractionalScene == [num |-> 2, den |-> 1, dn |-> 11, dd |-> 4]

SceneConfigs == { WholeScene, FractionalScene }

\* _base_clip's length: BlankClip(length = scene.duration * fps), an int.
BaseClipLength(c) == Trunc(c.dn * c.num, c.dd * c.den)

\* Faulty variant: the time of the following index.
ToNodeTimeNext(c, n) == <<(n + 1) * c.den, c.num>>

\* float(n / self.fps)
ToNodeTime(c, n) == <<n * c.den, c.num>>

\* The composition callable yields a frame for 0 <= time < duration only.
SceneHasFrame(c, t) == t[1] >= 0 /\ RatLess(t, <<c.dn, c.dd>>)

\* Planes one output-frame request asks for, in order: the video node asks
\* for the three colour planes, the alpha node for plane 3.
NodePlanes(node) == IF node = "video" THEN <<0, 1, 2>> ELSE <<3>>

\* Faulty variant: a threshold of three times the thread count.
TrimNeededLax(c) == Len(c) > NumThreads * 3

\* len(self.scene._cache) > core.num_threads * 2
TrimNeeded(c) == Len(c) > NumThreads * 2

\* Faulty variant: the newest keys instead of the oldest.
TrimKeysNewest(c) ==
  [i \in 1..(IF Len(c) < NumThreads THEN Len(c) ELSE NumThreads) |->
     c[Len(c) + 1 - i].key]

\* list(self.scene._cache.keys())[:core.num_threads]
TrimKeys(c) == [i \in 1..(IF Len(c) < NumThreads THEN Len(c) ELSE NumThreads) |-> c[i].key]

CacheKeys(c) == { c[i].key : i \in 1..Len(c) }

CacheIndex(c, k) == CHOOSE i \in 1..Len(c) : c[i].key = k

\* del d[k] on an insertion-ordered dict
DelFromCache(c, k) == SelectSeq(c, LAMBDA e : e.key # k)

(***************************************************************************)
(* MovisVSVideoSource                                                      *)
(***************************************************************************)
\* The times the compositor asks for: k / TimeDen seconds, from below zero
\* to MaxTick / TimeDen.
MaxTick == 10

TimeDen == 4

Times == { <<k, TimeDen>> : k \in (-2)..MaxTick }

NoClip == [num |-> 1, den |-> 1, frames |-> 0]

\* The clips wrapped: video_node.fps = num/den, video_node.num_frames = frames.
SourceClips ==
  { [num |-> 3, den |-> 1, frames |-> 3],
    [num |-> 5, den |-> 2, frames |-> 5],
    [num |-> 4, den |-> 3, frames |-> 2] }

\* n_frame
NFrame(clip) == clip.frames

\* duration = float(num_frames / fps)
Duration(clip) == <<clip.frames * clip.den, clip.num>>

\* Faulty variant: the end of the clip is out of range too.
GetKeyClosedEnd(clip, t) ==
  IF RatLess(t, <<0, 1>>) \/ ~RatLess(t, Duration(clip))
    THEN -1
    ELSE Trunc(t[1] * clip.num, t[2] * clip.den)

\* get_key(time)
GetKey(clip, t) ==
  IF RatLess(t, <<0, 1>>) \/ RatLess(Duration(clip), t)
    THEN -1
    ELSE Trunc(t[1] * clip.num, t[2] * clip.den)

\* The alpha clip chosen by __init__: the node given, the '_Alpha' property
\* clip, or the opaque BlankClip(color=255) when that fails or alpha is False.
AlphaNode(alphaArg, propOk) ==
  IF alphaArg = "node" THEN "node"
  ELSE IF alphaArg = "true" /\ propOk THEN "prop"
  ELSE "blank"

\* One plane of frame idx of the RGB24 clip, as uint8.
VideoPlane(idx, p) == <<"rgb", idx, p>>

\* Plane 0 of frame idx of the GRAY8 alpha clip, as uint8.
AlphaPlane(kind, idx) == IF kind = "blank" THEN <<"const", 255>> ELSE <<kind, idx>>

\* What __call__ returns for "no content": None.
Absent == <<>>

\* No __call__ made yet.
NoSample == <<"none">>

\* Faulty variant: the index n_frame is served too.
SampleInclusiveEnd(clip, kind, t) ==
  LET idx == GetKey(clip, t)
  IN IF idx < 0 \/ idx > NFrame(clip)
       THEN Absent
       ELSE <<VideoPlane(idx, 0), VideoPlane(idx, 1), VideoPlane(idx, 2),
              AlphaPlane(kind, idx)>>

\* __call__(time): None, or np.dstack of the three colour planes and alpha.
Sample(clip, kind, t) ==
  LET idx == GetKey(clip, t)
  IN IF idx < 0 \/ idx >= NFrame(clip)
       THEN Absent
       ELSE <<VideoPlane(idx, 0), VideoPlane(idx, 1), VideoPlane(idx, 2),
              AlphaPlane(kind, idx)>>

\* Faulty variant: the audio layer can be constructed.
AudioSourceInitOk == "ok"

\* MovisVSAudioSource.__init__(audio_node)
AudioSourceInit == "NotImplementedError"

\* MovisVSAudioSource.get_audio(start_time, end_time)
AudioSourceGetAudio == "NotImplementedError"

\* get_audio(start_time, end_time) of a constructed source
GetAudioResult(audio, layer) ==
  IF audio # "none" /\ layer # "none" THEN AudioSourceGetAudio ELSE "absent"

VARIABLES
  cfg,        \* the scene configuration (fps, duration)
  cache,      \* scene._cache: insertion-ordered sequence of [key, arr]
  mutex,      \* self.mutex: NoWorker when free, else the holder
  pc,         \* per worker: position inside _to_node
  req,        \* per worker: [n, planes] the frame request served (planes left)
  todo,       \* per worker: keys the trim loop still has to delete
  seen,       \* per worker: the cache as observed at the len() check
  ndel,       \* per worker: deletions done by this invocation's trim
  dst,        \* per worker: what this invocation copied into dst (<<>> = nothing)
  acquired,   \* per worker: this invocation acquired the mutex
  outcome,    \* per worker: outcome of the last finished invocation
  used,       \* per worker: arrays the planes of the current frame request came from
  badDel,     \* some del raised KeyError (key no longer in the dict)
  cursor,     \* the host's position in the timeline: the next index to render
  started,    \* number of _to_node invocations the host has asked for
  srcState,   \* the video source: "unbuilt", "built", or the error __init__ raised
  clip,       \* the source's video_node (fps, num_frames)
  alphaKind,  \* the source's video_alpha_node
  audioArg,   \* the audio argument given to __init__: "none" or "node"
  audioLayer, \* the source's _audio_layer
  lastTime,   \* time of the last get_key / __call__
  lastKey,    \* result of get_key for lastTime
  prevTime,   \* time of the call before it
  prevKey,    \* result of get_key for prevTime
  sample,     \* result of the last __call__ (NoSample when the last call was not one)
  audioRes    \* result of the last get_audio ("none" before any)

bvars == <<cfg, cache, mutex, pc, req, todo, seen, ndel, dst, acquired,
           outcome, used, badDel, cursor, started>>

svars == <<srcState, clip, alphaKind, audioArg, audioLayer, lastTime, lastKey,
           prevTime, prevKey, sample, audioRes>>

vars == <<bvars, svars>>

NoReq == [n |-> -1, planes |-> <<>>]

\* How an invocation ended: "ok" (returned) or "KeyError" (raised, for index n).
NoOutcome == [res |-> "none", n |-> -1]

Returned == [res |-> "ok", n |-> -1]

Raised(n) == [res |-> "KeyError", n |-> n]

\* Identity of a newly produced array for frame n: one no worker still holds.
FreshArray(n) ==
  LET live == UNION { used[w] : w \in { v \in Workers : req[v].n = n } }
  IN CHOOSE a \in 1..(Cardinality(live) + 1) :
       a \notin live /\ \A b \in 1..(a - 1) : b \in live

\* self.scene(time): None outside the scene, else the memoized array or a
\* new one, stored under the key of the time. <<array, cache afterwards>>.
SceneCall(c, n) ==
  IF ~SceneHasFrame(cfg, ToNodeTime(cfg, n))
    THEN <<NoArray, c>>
    ELSE IF n \in CacheKeys(c)
      THEN <<c[CacheIndex(c, n)].arr, c>>
      ELSE <<FreshArray(n), Append(c, [key |-> n, arr |-> FreshArray(n)])>>

BridgeInit ==
  /\ cfg \in SceneConfigs
  /\ cache = <<>>                       \* self.scene._cache = {}
  /\ mutex = NoWorker                   \* self.mutex = Lock()
  /\ pc = [w \in Workers |-> "idle"]
  /\ req = [w \in Workers |-> NoReq]
  /\ todo = [w \in Workers |-> <<>>]
  /\ seen = [w \in Workers |-> <<>>]
  /\ ndel = [w \in Workers |-> 0]
  /\ dst = [w \in Workers |-> <<>>]
  /\ acquired = [w \in Workers |-> FALSE]
  /\ outcome = [w \in Workers |-> NoOutcome]
  /\ used = [w \in Workers |-> {}]
  /\ badDel = FALSE
  /\ cursor = 0
  /\ started = 0

\* Faulty variant: the plane is copied before the frame is checked.
ToNodeCopyFirst(w, n, planes) ==
  LET r == SceneCall(cache, n)
  IN /\ cache' = r[2]
     /\ ndel' = [ndel EXCEPT ![w] = 0]
     /\ acquired' = [acquired EXCEPT ![w] = FALSE]
     /\ dst' = [dst EXCEPT ![w] = <<n, r[1], Head(planes)>>]
     /\ IF r[1] = NoArray
          THEN /\ pc' = [pc EXCEPT ![w] = "idle"]
               /\ outcome' = [outcome EXCEPT ![w] = Raised(n)]
               /\ req' = [req EXCEPT ![w] = NoReq]
               /\ used' = [used EXCEPT ![w] = {}]
          ELSE /\ pc' = [pc EXCEPT ![w] = "acquire"]
               /\ req' = [req EXCEPT ![w] = [n |-> n, planes |-> planes]]
               /\ used' = [used EXCEPT ![w] = @ \cup {r[1]}]
               /\ UNCHANGED outcome
     /\ UNCHANGED <<cfg, mutex, todo, seen, badDel, svars>>

\* _to_node(n, plane, dst) up to the mutex: the scene call, then either
\* `raise KeyError` (frame is None) or np.copyto(dst, frame[:, :, plane]).
ToNode(w, n, planes) ==
  LET r == SceneCall(cache, n)
  IN /\ cache' = r[2]
     /\ ndel' = [ndel EXCEPT ![w] = 0]
     /\ acquired' = [acquired EXCEPT ![w] = FALSE]
     /\ IF r[1] = NoArray
          THEN /\ pc' = [pc EXCEPT ![w] = "idle"]
               /\ outcome' = [outcome EXCEPT ![w] = Raised(n)]
               /\ req' = [req EXCEPT ![w] = NoReq]
               /\ dst' = [dst EXCEPT ![w] = <<>>]
               /\ used' = [used EXCEPT ![w] = {}]
          ELSE /\ pc' = [pc EXCEPT ![w] = "acquire"]
               /\ req' = [req EXCEPT ![w] = [n |-> n, planes |-> planes]]
               /\ dst' = [dst EXCEPT ![w] = <<n, r[1], Head(planes)>>]
               /\ used' = [used EXCEPT ![w] = @ \cup {r[1]}]
               /\ UNCHANGED outcome
     /\ UNCHANGED <<cfg, mutex, todo, seen, badDel, svars>>

\* Indices the host may ask for next: it renders the timeline forward, again
\* and again, and asks for the next index or once more for the one before it.
Requestable ==
  { cursor, (cursor + BaseClipLength(cfg)) % (BaseClipLength(cfg) + 1) }

\* The host asks an output node for frame n: the video node (planes 0, 1, 2,
\* one _to_node call each) or the alpha node (plane 3).
RequestWithin(w, budget) ==
  /\ pc[w] = "idle"
  /\ \E n \in Requestable, node \in {"video", "alpha"} :
       /\ started + Len(NodePlanes(node)) <= budget
       /\ started' = started + Len(NodePlanes(node))
       /\ ToNode(w, n, NodePlanes(node))
       /\ cursor' = IF n = cursor THEN (cursor + 1) % (BaseClipLength(cfg) + 1)
                                 ELSE cursor

Request(w) == RequestWithin(w, MaxCalls)

LiveRequest(w) == RequestWithin(w, LiveMaxCalls)

\* The per-plane callback is invoked for the next plane of the same frame.
NextPlane(w) ==
  /\ pc[w] = "next"
  /\ ToNode(w, req[w].n, req[w].planes)
  /\ UNCHANGED <<cursor, started>>

\* Faulty variant: a lock that excludes nobody.
MutexAlwaysFree == TRUE

\* Lock.acquire(): only a free lock can be taken.
MutexFree == mutex = NoWorker

\* with self.mutex: if len(cache) > num_threads * 2:
\*                      keys = list(cache.keys())[:num_threads]
EnterTrim(w) ==
  /\ pc[w] = "acquire"
  /\ MutexFree
  /\ mutex' = w
  /\ acquired' = [acquired EXCEPT ![w] = TRUE]
  /\ seen' = [seen EXCEPT ![w] = cache]
  /\ IF TrimNeeded(cache)
       THEN /\ todo' = [todo EXCEPT ![w] = TrimKeys(cache)]
            /\ pc' = [pc EXCEPT ![w] = "del"]
       ELSE /\ todo' = [todo EXCEPT ![w] = <<>>]
            /\ pc' = [pc EXCEPT ![w] = "release"]
  /\ UNCHANGED <<cfg, cache, req, ndel, dst, outcome, used, badDel, cursor, started, svars>>

\* del self.scene._cache[k], one key of the loop
DelKey(w) ==
  /\ pc[w] = "del"
  /\ LET k == Head(todo[w])
     IN /\ badDel' = (badDel \/ k \notin CacheKeys(cache))
        /\ cache' = DelFromCache(cache, k)
  /\ ndel' = [ndel EXCEPT ![w] = @ + 1]
  /\ todo' = [todo EXCEPT ![w] = Tail(@)]
  /\ pc' = [pc EXCEPT ![w] = IF Len(todo[w]) = 1 THEN "release" ELSE "del"]
  /\ UNCHANGED <<cfg, mutex, req, seen, dst, acquired, outcome, used, cursor, started,
                 svars>>

\* Faulty variant: leaving the with-block does not free the lock.
MutexKept == mutex

\* Lock.release(): the lock becomes free.
MutexReleased == NoWorker

\* with self.mutex: (exit); _to_node returns
Release(w) ==
  /\ pc[w] = "release"
  /\ mutex' = MutexReleased
  /\ outcome' = [outcome EXCEPT ![w] = Returned]
  /\ seen' = [seen EXCEPT ![w] = <<>>]
  /\ ndel' = [ndel EXCEPT ![w] = 0]
  /\ dst' = [dst EXCEPT ![w] = <<>>]
  /\ acquired' = [acquired EXCEPT ![w] = FALSE]
  /\ IF Len(req[w].planes) > 1
       THEN /\ pc' = [pc EXCEPT ![w] = "next"]
            /\ req' = [req EXCEPT ![w].planes = Tail(@)]
            /\ UNCHANGED used
       ELSE /\ pc' = [pc EXCEPT ![w] = "idle"]
            /\ req' = [req EXCEPT ![w] = NoReq]
            /\ used' = [used EXCEPT ![w] = {}]
  /\ UNCHANGED <<cfg, cache, todo, badDel, cursor, started, svars>>

Step(w) ==
  \/ NextPlane(w)
  \/ EnterTrim(w)
  \/ DelKey(w)
  \/ Release(w)

NoTime == <<0, 0>>

SourceInit ==
  /\ srcState = "unbuilt"
  /\ clip = NoClip
  /\ alphaKind = "none"
  /\ audioArg = "none"
  /\ audioLayer = "none"
  /\ lastTime = NoTime
  /\ lastKey = -1
  /\ prevTime = NoTime
  /\ prevKey = -1
  /\ sample = NoSample
  /\ audioRes = "none"

\* MovisVSVideoSource(video_node or (video_node, alpha), audio)
Construct ==
  /\ srcState = "unbuilt"
  /\ \E node \in SourceClips, alphaArg \in {"node", "true", "false"},
        propOk \in BOOLEAN, audio \in {"none", "node"} :
       /\ clip' = node
       /\ alphaKind' = AlphaNode(alphaArg, propOk)
       /\ audioArg' = audio
       /\ IF audio # "none" /\ AudioSourceInit # "ok"
            THEN /\ srcState' = AudioSourceInit
                 /\ audioLayer' = "none"
            ELSE /\ srcState' = "built"
                 /\ audioLayer' = IF audio # "none" THEN "layer" ELSE "none"
  /\ UNCHANGED <<lastTime, lastKey, prevTime, prevKey, sample, audioRes,
                 bvars>>

\* source.get_key(time)
CallGetKey ==
  /\ srcState = "built"
  /\ \E t \in Times :
       /\ lastTime' = t
       /\ lastKey' = GetKey(clip, t)
  /\ prevTime' = lastTime
  /\ prevKey' = lastKey
  /\ sample' = NoSample
  /\ UNCHANGED <<srcState, clip, alphaKind, audioArg, audioLayer, audioRes,
                 bvars>>

\* source(time)
CallSample ==
  /\ srcState = "built"
  /\ \E t \in Times :
       /\ lastTime' = t
       /\ lastKey' = GetKey(clip, t)
       /\ sample' = Sample(clip, alphaKind, t)
  /\ prevTime' = lastTime
  /\ prevKey' = lastKey
  /\ UNCHANGED <<srcState, clip, alphaKind, audioArg, audioLayer, audioRes,
                 bvars>>

\* source.get_audio(start_time, end_time)
CallGetAudio ==
  /\ srcState = "built"
  /\ audioRes' = GetAudioResult(audioArg, audioLayer)
  /\ UNCHANGED <<srcState, clip, alphaKind, audioArg, audioLayer, lastTime,
                 lastKey, prevTime, prevKey, sample, bvars>>

Init == BridgeInit /\ SourceInit

Next == \E w \in Workers : Request(w) \/ Step(w)

Spec == Init /\ [][Next]_vars

LiveNext == \E w \in Workers : LiveRequest(w) \/ Step(w)

\* Every worker thread keeps running, and a thread that finds the lock free
\* again and again gets it.
Fairness == \A w \in Workers : SF_vars(Step(w))

LiveInit == Init /\ cfg = WholeScene

FairSpec == LiveInit /\ [][LiveNext]_vars /\ Fairness

SourceNext == Construct \/ CallGetKey \/ CallSample \/ CallGetAudio

SourceSpec == Init /\ [][SourceNext]_vars

(***************************************************************************)
(* Properties                                                              *)
(***************************************************************************)
IsPrefix(s, t) == Len(s) <= Len(t) /\ \A i \in 1..Len(s) : s[i] = t[i]

Drop(s, k) == SubSeq(s, k + 1, Len(s))

InTrim(w) == pc[w] \in {"del", "release"}

SceneDuration == <<cfg.dn, cfg.dd>>

\* C1: whenever a worker completes its check-and-trim (the len() check found
\* nothing to trim, or its last del has run), the memoization dict holds at
\* most 2 * num_threads entries, whatever the other workers did meanwhile.
C1_BoundAfterTrim ==
  [][\A w \in Workers :
       (pc[w] \in {"acquire", "del"} /\ pc'[w] = "release")
         => Len(cache') <= 2 * NumThreads]_vars

C1_Witness ==
  \E w \in Workers :
    /\ pc[w] = "release"
    /\ ndel[w] = NumThreads
    /\ Len(seen[w]) > 2 * NumThreads
    /\ Len(cache) <= 2 * NumThreads

\* C2: at the end of a check-and-trim that saw more than 2 * num_threads
\* entries, exactly num_threads deletions were made and the dict is what was
\* seen minus its num_threads oldest entries, in the same order (followed by
\* whatever the scene inserted meanwhile); one that saw 2 * num_threads or
\* fewer deleted nothing and what it saw is still there, in order.
C2_TrimOldest ==
  \A w \in Workers :
    pc[w] = "release" =>
      IF Len(seen[w]) > 2 * NumThreads
        THEN /\ ndel[w] = NumThreads
             /\ IsPrefix(Drop(seen[w], NumThreads), cache)
             /\ Len(seen[w]) - NumThreads <= Len(cache)
        ELSE /\ ndel[w] = 0
             /\ IsPrefix(seen[w], cache)

C2_Witness ==
  \E w \in Workers :
    /\ pc[w] = "release"
    /\ Len(seen[w]) > 2 * NumThreads
    /\ cache = Drop(seen[w], NumThreads)
    /\ \E v \in Workers : v # w /\ pc[v] # "idle"

\* C3: at most one worker is inside the check-and-trim section and it holds
\* the mutex; no del ever hits a key that is gone, the keys still to delete
\* are all present; and a section that saw more than 2 * num_threads entries
\* is deleting or has deleted num_threads of them.
C3_ExclusiveTrim ==
  /\ \A w, v \in Workers : (InTrim(w) /\ InTrim(v)) => w = v
  /\ \A w \in Workers : InTrim(w) => mutex = w
  /\ ~badDel
  /\ \A w \in Workers :
       pc[w] = "del" =>
         /\ \A i \in 1..Len(todo[w]) : todo[w][i] \in CacheKeys(cache)
         /\ Len(seen[w]) > 2 * NumThreads
         /\ ndel[w] + Len(todo[w]) = NumThreads
  /\ \A w \in Workers :
       (pc[w] = "release" /\ Len(seen[w]) > 2 * NumThreads) => ndel[w] = NumThreads

C3_Witness ==
  \E w, v \in Workers :
    /\ w # v
    /\ pc[w] = "del"
    /\ ndel[w] > 0
    /\ pc[v] = "acquire"
    /\ req[w].n # req[v].n

\* C4: an invocation that raised KeyError was for an index whose time is not
\* before the scene's duration (the scene has no frame there), wrote nothing to dst, never acquired the mutex and deleted
\* nothing; the worker is idle again, does not hold the mutex, and the host
\* can hand it the next request.
C4_KeyErrorOnly ==
  \A w \in Workers :
    (pc[w] = "idle" /\ outcome[w].res = "KeyError") =>
      /\ outcome[w].n * cfg.den * cfg.dd >= cfg.dn * cfg.num
      /\ dst[w] = <<>>
      /\ ~acquired[w]
      /\ ndel[w] = 0
      /\ mutex # w
      /\ (started < MaxCalls => ENABLED Request(w))

\* A worker whose earlier invocation raised KeyError is completing a later one.
C4_Witness ==
  \E w \in Workers :
    /\ outcome[w].res = "KeyError"
    /\ pc[w] = "release"
    /\ dst[w] # <<>>
    /\ acquired[w]

\* C5: get_key(time) is -1 exactly for time < 0 or time > duration, otherwise
\* the integer k with k <= time * fps < k + 1; and over two calls with times
\* in [0, duration] the later-in-time one never gets the smaller index.
C5_GetKey ==
  (srcState = "built" /\ lastTime # NoTime) =>
    LET t == lastTime
        out == t[1] < 0 \/ t[1] * clip.num > clip.frames * clip.den * t[2]
    IN /\ out => lastKey = -1
       /\ ~out => /\ lastKey >= 0
                  /\ lastKey * t[2] * clip.den <= t[1] * clip.num
                  /\ t[1] * clip.num < (lastKey + 1) * t[2] * clip.den
       /\ (prevTime # NoTime /\ prevKey >= 0 /\ lastKey >= 0
             /\ ~RatLess(t, prevTime)) => prevKey <= lastKey

\* Two calls in range, at different times, the second one a truncated product.
C5_Witness ==
  /\ srcState = "built"
  /\ prevTime # NoTime
  /\ RatLess(prevTime, lastTime)
  /\ 0 < prevKey
  /\ prevKey < lastKey
  /\ lastKey * lastTime[2] * clip.den < lastTime[1] * clip.num

\* C6: source(time) is None exactly when get_key(time) < 0 or >= n_frame,
\* that is exactly for time < 0 or time >= duration; otherwise it is the stack
\* of the frame's three colour planes and its alpha plane. At time = duration
\* get_key gives n_frame, not -1, and the sample is None.
C6_Sample ==
  (srcState = "built" /\ sample # NoSample) =>
    LET t == lastTime
        k == GetKey(clip, t)
        before == t[1] < 0
        atEnd == t[1] * clip.num = clip.frames * clip.den * t[2]
        past == t[1] * clip.num > clip.frames * clip.den * t[2]
    IN /\ (sample = Absent) <=> (k < 0 \/ k >= NFrame(clip))
       /\ (sample = Absent) <=> (before \/ atEnd \/ past)
       /\ (before \/ past) => lastKey = -1
       /\ atEnd => (lastKey = NFrame(clip) /\ sample = Absent)
       /\ sample # Absent =>
            /\ Len(sample) = 4
            /\ \A p \in 0..2 : sample[p + 1] = <<"rgb", lastKey, p>>
            /\ sample[4] = IF alphaKind = "blank" THEN <<"const", 255>>
                                                 ELSE <<alphaKind, lastKey>>

\* A sample taken exactly at time = duration.
C6_Witness ==
  /\ srcState = "built"
  /\ sample = Absent
  /\ RatEq(lastTime, Duration(clip))
  /\ lastKey = NFrame(clip)

C8_Timeline ==
  LET L == BaseClipLength(cfg)
      whole == (cfg.dn * cfg.num) % (cfg.dd * cfg.den) = 0
  IN /\ L * cfg.dd * cfg.den <= cfg.dn * cfg.num
     /\ cfg.dn * cfg.num < (L + 1) * cfg.dd * cfg.den
     /\ whole => L * cfg.dd * cfg.den = cfg.dn * cfg.num
     /\ \A w \in Workers :
          /\ outcome[w].res = "KeyError" => outcome[w].n >= L
          /\ pc[w] \in {"acquire", "del", "release", "next"} =>
               ~RatEq(<<req[w].n, 1>>, <<cfg.dn * cfg.num, cfg.dd * cfg.den>>)
          /\ (whole /\ outcome[w].res = "KeyError") => outcome[w].n = L

\* Index L raised KeyError at time = duration, and the last index L - 1 got
\* its frame.
C8_Witness ==
  \E w, v \in Workers :
    /\ outcome[w].res = "KeyError"
    /\ outcome[w].n = BaseClipLength(cfg)
    /\ RatEq(ToNodeTime(cfg, outcome[w].n), SceneDuration)
    /\ pc[v] = "acquire"
    /\ req[v].n = BaseClipLength(cfg) - 1
    /\ dst[v] # <<>>

\* C9 as stated: the planes delivered for one output frame request all come
\* from one and the same array produced by the scene.
C9_SameArray == \A w \in Workers : Cardinality(used[w]) <= 1

\* C10: every invocation in progress ends (returns or raises); a worker in
\* progress means some worker can take a step; and the mutex is held exactly
\* by the worker inside the check-and-trim section, by nobody otherwise.
C10_MutexDiscipline ==
  /\ \A w \in Workers : mutex = w <=> InTrim(w)
  /\ (\A w \in Workers : ~InTrim(w)) => mutex = NoWorker
  /\ \A w \in Workers : (pc[w] = "idle" /\ outcome[w].res = "KeyError") => mutex # w
  /\ (\E w \in Workers : pc[w] # "idle") => ENABLED (\E w \in Workers : Step(w))

C10_Completes ==
  /\ []C10_MutexDiscipline
  /\ \A w \in Workers :
       (pc[w] \in {"acquire", "del", "release"}) ~> (pc[w] \in {"idle", "next"})

\* A worker waits for the mutex that another holds, after a failed invocation.
C10_Witness ==
  \E w, v, u \in Workers :
    /\ pc[w] = "acquire"
    /\ mutex = v
    /\ v # w
    /\ outcome[u].res = "KeyError"
====
